---- MODULE Spec2Model ----
(***************************************************************************)
(* Model of scripts/kill-all.py: the dev-server killer that reads the      *)
(* .dev-instances.json PID registry, tree-kills what it names and falls    *)
(* back to scanning a fixed list of ports.                                 *)
(*                                                                         *)
(* The registry file, the three external commands (tasklist, taskkill,     *)
(* powershell) and the file write are the environment: every outcome a     *)
(* call can have (output, non-zero exit, the program not launchable) is   *)
(* an input drawn with \E.  Text produced by the commands is a sequence of *)
(* one-character strings, so that strip/split/lower/int are computed.      *)
(***************************************************************************)
EXTENDS Integers, Sequences, FiniteSets, TLC

VARIABLES pc, file, instances, idx, killed_any, scanIdx, calls, result, exitCode, probe

vars == <<pc, file, instances, idx, killed_any, scanIdx, calls, result, exitCode, probe>>

(* ---------------------------- bounds ----------------------------------- *)
\* largest number of entries of a registry mapping
MaxEntries == 2
\* longest text (before the trailing newline) the port-owner lookup prints
MaxOutLen == 1

(* ---------------------------- values ----------------------------------- *)
\* Python values the script handles: None and integers.
None == [t |-> "null", v |-> 0]
IntV(n) == [t |-> "int", v |-> n]

\* `if not pid` / `if pid:` : None and 0 are falsy.
Truthy(x) == x.t = "int" /\ x.v # 0

PORTS == <<7331, 7333, 5173>>

(* ----------------------- text of command output ------------------------ *)
NL == "\n"
Whitespace == {" ", NL}
Quote == {"\""}

RECURSIVE LStrip(_, _)
LStrip(s, chars) ==
    IF s # <<>> /\ Head(s) \in chars THEN LStrip(Tail(s), chars) ELSE s

RECURSIVE RStrip(_, _)
RStrip(s, chars) ==
    IF s # <<>> /\ s[Len(s)] \in chars THEN RStrip(SubSeq(s, 1, Len(s) - 1), chars) ELSE s

\* str.strip()
Strip(s) == RStrip(LStrip(s, Whitespace), Whitespace)

\* str.strip('"')
StripQuotes(s) == RStrip(LStrip(s, Quote), Quote)

\* sub in s
Contains(s, sub) ==
    \E i \in 1..(Len(s) - Len(sub) + 1) : SubSeq(s, i, i + Len(sub) - 1) = sub

\* s.split(",")[0]
RECURSIVE FirstField(_)
FirstField(s) ==
    IF s = <<>> \/ Head(s) = "," THEN <<>> ELSE <<Head(s)>> \o FirstField(Tail(s))

LowerChar(c) ==
    CASE c = "N" -> "n" [] c = "O" -> "o" [] c = "D" -> "d" [] c = "E" -> "e"
      [] c = "T" -> "t" [] c = "S" -> "s" [] c = "X" -> "x" [] c = "C" -> "c"
      [] c = "M" -> "m" [] OTHER -> c

\* str.lower()
Lower(s) == [i \in 1..Len(s) |-> LowerChar(s[i])]

DigitVal(c) ==
    CASE c = "0" -> 0 [] c = "1" -> 1 [] c = "2" -> 2 [] c = "3" -> 3 [] c = "4" -> 4
      [] c = "5" -> 5 [] c = "6" -> 6 [] c = "7" -> 7 [] c = "8" -> 8 [] c = "9" -> 9
      [] OTHER -> 0 - 1

IsNumeric(s) == s # <<>> /\ \A i \in 1..Len(s) : DigitVal(s[i]) >= 0

\* int(s) for a text of decimal digits
RECURSIVE ParseInt(_)
ParseInt(s) ==
    IF s = <<>> THEN 0 ELSE 10 * ParseInt(SubSeq(s, 1, Len(s) - 1)) + DigitVal(s[Len(s)])

(* --------------------- outcomes of external commands ------------------- *)
\* A command either prints text and exits 0 ("out"), exits non-zero
\* (subprocess.CalledProcessError) or cannot be launched (OSError).
Outcome(st, out) == [st |-> st, out |-> out]

NoTasksText == <<"N", "o", " ", "t", "a", "s", "k", "s">>
NodeText == <<"n", "o", "d", "e">>
TsxText == <<"t", "s", "x">>

\* what `tasklist /FI "PID eq <pid>" /FO CSV /NH` can print
TasklistOutputs ==
    { <<NL>>,
      <<"I", "N", "F", "O", ":", " ">> \o NoTasksText \o <<NL>>,
      <<"\"", "n", "o", "d", "e", ".", "e", "x", "e", "\"", ",", "\"", "7", "\"", NL>>,
      <<"\"", "T", "S", "X", "\"", ",", "\"", "7", "\"", NL>>,
      <<"\"", "c", "m", "d", "\"", ",", "\"", "n", "o", "d", "e", "\"", NL>> }

TasklistOutcomes ==
    {Outcome("nonzero", <<>>), Outcome("oserror", <<>>)}
        \cup {Outcome("out", o) : o \in TasklistOutputs}

\* taskkill: exit 0, non-zero exit, not launchable
KillOutcomes == {"ok", "nonzero", "oserror"}

LookupAlphabet == {"0", "7", "x"}
Texts(n) == UNION {[1..k -> LookupAlphabet] : k \in 0..n}

\* what the powershell Get-NetTCPConnection one-liner can print
LookupOutcomes ==
    {Outcome("nonzero", <<>>), Outcome("oserror", <<>>)}
        \cup {Outcome("out", o \o <<NL>>) : o \in Texts(MaxOutLen)}

\* open(INSTANCE_FILE, "w") fails / f.write fails after the truncation / succeeds
WriteOutcomes == {"ok", "open_fails", "write_fails"}

(* ------------------------------ call log -------------------------------- *)
\* One record per external effect, in program order.
\*   op    "query" (tasklist), "kill" (taskkill), "lookup" (powershell),
\*         "noproc" (the "No process on port" line), "write" (registry reset)
\*   via   for a kill: "pid" (label is the entry name) or "port" (label "port N")
\*   name  the registry entry name, "" when the call has none
Ev(op, via, name, pid, port, res) ==
    [op |-> op, via |-> via, name |-> name, pid |-> pid, port |-> port, res |-> res]

(* ----------------------------- functions -------------------------------- *)
\* pid_matches_name, lines 15-28: any exception gives False
pid_matches_name(q) ==
    IF q.st # "out" THEN FALSE
    ELSE LET out == Strip(q.out) IN
         IF out = <<>> \/ Contains(out, NoTasksText) THEN FALSE
         ELSE LET image == Lower(StripQuotes(FirstField(out))) IN
              Contains(image, NodeText) \/ Contains(image, TsxText)

\* kill_tree, lines 31-42: only CalledProcessError is caught
kill_tree(pid, via, name, port, k) ==
    [raised |-> k = "oserror",
     ok     |-> k = "ok",
     ev     |-> <<Ev("kill", via, name, pid, port, k)>>]

\* find_pid_on_port with the ValueError of int() left uncaught
find_pid_on_port_ValueErrorEscapes(l) ==
    IF l.st = "oserror" THEN [raised |-> TRUE, val |-> None]
    ELSE IF l.st = "nonzero" THEN [raised |-> FALSE, val |-> None]
    ELSE LET out == Strip(l.out) IN
         IF out # <<>> /\ out # <<"0">>
         THEN [raised |-> ~IsNumeric(out), val |-> IF IsNumeric(out) THEN IntV(ParseInt(out)) ELSE None]
         ELSE [raised |-> FALSE, val |-> None]

\* find_pid_on_port, lines 86-99: CalledProcessError and ValueError are caught
find_pid_on_port(l) ==
    IF l.st = "oserror" THEN [raised |-> TRUE, val |-> None]
    ELSE IF l.st = "nonzero" THEN [raised |-> FALSE, val |-> None]
    ELSE LET out == Strip(l.out) IN
         IF out # <<>> /\ out # <<"0">> /\ IsNumeric(out)
         THEN [raised |-> FALSE, val |-> IntV(ParseInt(out))]
         ELSE [raised |-> FALSE, val |-> None]

\* kill_by_port, lines 102-108
kill_by_port(port, l, k) ==
    LET f == find_pid_on_port(l) IN
    IF f.raised
    THEN [raised |-> TRUE, ev |-> <<Ev("lookup", "port", "", None, port, "oserror")>>]
    ELSE IF Truthy(f.val)
    THEN LET kt == kill_tree(f.val, "port", "", port, k) IN
         [raised |-> kt.raised,
          ev     |-> <<Ev("lookup", "port", "", f.val, port, "found")>> \o kt.ev]
    ELSE [raised |-> FALSE,
          ev     |-> <<Ev("lookup", "port", "", None, port, "none"),
                       Ev("noproc", "port", "", None, port, "")>>]

(* --------------------------- registry file ------------------------------ *)
\* An entry value of the registry: a JSON object with optional "pid" and
\* "port" keys (a key may be absent or hold null), or some other JSON value.
Info(isdict, haspid, pid, hasport, port) ==
    [isdict |-> isdict, haspid |-> haspid, pid |-> pid, hasport |-> hasport, port |-> port]

PidVals == {None, IntV(0), IntV(7)}
PortVals == {IntV(5173)}

\* The port of an entry is read only when its pid is truthy (line 65), so the
\* entries without a usable pid all record their port.
Infos ==
    {Info(FALSE, FALSE, None, FALSE, None)}
        \cup {Info(TRUE, FALSE, None, TRUE, port) : port \in PortVals}
        \cup {Info(TRUE, TRUE, pid, TRUE, port) :
                pid \in {p \in PidVals : ~Truthy(p)}, port \in PortVals}
        \cup {Info(TRUE, TRUE, pid, hp, IF hp THEN port ELSE None) :
                pid \in {p \in PidVals : Truthy(p)}, hp \in BOOLEAN, port \in PortVals}

\* info.get(key)
GetPid(info) == IF info.haspid THEN info.pid ELSE None
GetPort(info) == IF info.hasport THEN info.port ELSE None

NamePool == <<"server", "web", "relay", "proxy">>

\* the items of a JSON object, in file order; keys are distinct
Items(n) ==
    {[i \in 1..n |-> [name |-> NamePool[i], info |-> f[i]]] : f \in [1..n -> Infos]}

\* a parsed JSON document: t is its type, n its len() (or its value, for a
\* number), items its entries when it is an object
Json(t, n, items) == [t |-> t, n |-> n, items |-> items]
EmptyDict == Json("dict", 0, <<>>)

JsonDocs ==
    {Json("null", 0, <<>>), Json("int", 0, <<>>), Json("int", 5, <<>>),
     Json("list", 0, <<>>), Json("list", 1, <<>>)}
        \cup {Json("dict", Len(it), it) : it \in UNION {Items(n) : n \in 0..MaxEntries}}

\* the registry file on disk
File(kind, doc) == [kind |-> kind, doc |-> doc]

RegistryFiles ==
    {File(k, Json("null", 0, <<>>)) : k \in {"absent", "unreadable", "malformed", "undecodable"}}
        \cup {File("json", d) : d \in JsonDocs}

\* `not instances`
Falsy(doc) == doc.t = "null" \/ doc.n = 0

\* lines 47-61, up to the first iteration: "false" (return False), "raise"
\* (an exception that is not caught) or "loop" (the entries are iterated)
ReadOutcome(f) ==
    CASE f.kind = "absent" -> "false"          \* os.path.isfile is False
      [] f.kind = "unreadable" -> "false"      \* IOError
      [] f.kind = "malformed" -> "false"       \* json.JSONDecodeError
      [] f.kind = "undecodable" -> "raise"     \* UnicodeDecodeError
      [] OTHER ->
           IF Falsy(f.doc) THEN "false"
           ELSE IF f.doc.t = "int" THEN "raise"      \* len(instances): TypeError
           ELSE IF f.doc.t # "dict" THEN "raise"     \* instances.items(): AttributeError
           ELSE "loop"

\* the loop body with the image-name test ignored: every entry with a pid is
\* tree-killed by its registered PID
ProcessInfo_KillsWithoutMatch(name, info, q, l, k) ==
    IF ~info.isdict
    THEN [raised |-> TRUE, killed |-> FALSE, ev |-> <<>>]
    ELSE LET pid == GetPid(info) IN
         IF ~Truthy(pid)
         THEN [raised |-> FALSE, killed |-> FALSE, ev |-> <<>>]
         ELSE LET kt == kill_tree(pid, "pid", name, None, k) IN
              [raised |-> kt.raised, killed |-> kt.ok,
               ev |-> <<Ev("query", "pid", name, pid, None,
                           IF pid_matches_name(q) THEN "match" ELSE "stale")>> \o kt.ev]

\* one iteration of the loop, lines 61-74
ProcessInfo(name, info, q, l, k) ==
    IF ~info.isdict
    THEN [raised |-> TRUE, killed |-> FALSE, ev |-> <<>>]   \* info.get: AttributeError
    ELSE LET pid == GetPid(info)
             port == GetPort(info) IN
         IF ~Truthy(pid)
         THEN [raised |-> FALSE, killed |-> FALSE, ev |-> <<>>]
         ELSE IF pid_matches_name(q)
         THEN LET kt == kill_tree(pid, "pid", name, None, k) IN
              [raised |-> kt.raised, killed |-> kt.ok,
               ev |-> <<Ev("query", "pid", name, pid, None, "match")>> \o kt.ev]
         ELSE LET kb == kill_by_port(port, l, k) IN
              [raised |-> kb.raised, killed |-> TRUE,
               ev |-> <<Ev("query", "pid", name, pid, None, "stale")>> \o kb.ev]

\* the registry file after lines 77-81
WrittenFile(f, w) ==
    CASE w = "ok" -> File("json", EmptyDict)
      [] w = "write_fails" -> File("malformed", Json("null", 0, <<>>))  \* truncated
      [] OTHER -> f

(* ------------------------------- state ---------------------------------- *)
\* the arguments and command outcomes of one call of kill_by_port on its own
Probe(port, l, k) == [port |-> port, l |-> l, k |-> k]
NoProbe == Probe(None, Outcome("nonzero", <<>>), "ok")
PortArgs == {IntV(PORTS[i]) : i \in 1..Len(PORTS)} \cup {None}
Probes == {Probe(p, l, k) : p \in PortArgs, l \in LookupOutcomes, k \in KillOutcomes}

TypeOK ==
    /\ pc \in {"start", "loop", "scan", "finish", "done", "crashed", "port", "returned"}
    /\ file \in RegistryFiles
    /\ idx \in 1..(MaxEntries + 1)
    /\ killed_any \in BOOLEAN
    /\ scanIdx \in 1..(Len(PORTS) + 1)
    /\ result \in {"unset", "True", "False"}
    /\ exitCode \in {0 - 1, 0, 1}
    /\ probe \in Probes

Init ==
    /\ pc = "start"
    /\ file \in RegistryFiles
    /\ instances = <<>>
    /\ idx = 1
    /\ killed_any = FALSE
    /\ scanIdx = 1
    /\ calls = <<>>
    /\ result = "unset"
    /\ exitCode = 0 - 1
    /\ probe = NoProbe

\* an exception leaves main: traceback, exit status 1
Crash ==
    /\ pc' = "crashed"
    /\ exitCode' = 1

\* kill_from_instance_file, lines 47-60
ReadRegistry ==
    /\ pc = "start"
    /\ LET r == ReadOutcome(file) IN
       \/ /\ r = "false"
          /\ pc' = "scan"
          /\ result' = "False"
          /\ UNCHANGED <<instances, exitCode>>
       \/ /\ r = "raise"
          /\ Crash
          /\ UNCHANGED <<instances, result>>
       \/ /\ r = "loop"
          /\ pc' = "loop"
          /\ instances' = file.doc.items
          /\ UNCHANGED <<result, exitCode>>
    /\ UNCHANGED <<file, idx, killed_any, scanIdx, calls, probe>>

\* kill_from_instance_file, one iteration of lines 61-74
ProcessEntry ==
    /\ pc = "loop"
    /\ idx <= Len(instances)
    /\ \E q \in TasklistOutcomes, l \in LookupOutcomes, k \in KillOutcomes :
         LET r == ProcessInfo(instances[idx].name, instances[idx].info, q, l, k) IN
         /\ calls' = calls \o r.ev
         /\ IF r.raised
            THEN Crash /\ UNCHANGED <<idx, killed_any>>
            ELSE /\ idx' = idx + 1
                 /\ killed_any' = (killed_any \/ r.killed)
                 /\ UNCHANGED <<pc, exitCode>>
    /\ UNCHANGED <<file, instances, scanIdx, result, probe>>

\* kill_from_instance_file, lines 76-83, and the test of line 114
CleanUp ==
    /\ pc = "loop"
    /\ idx > Len(instances)
    /\ \E w \in WriteOutcomes :
         /\ file' = WrittenFile(file, w)
         /\ calls' = Append(calls, Ev("write", "", "", None, None, w))
    /\ result' = IF killed_any THEN "True" ELSE "False"
    /\ pc' = IF killed_any THEN "finish" ELSE "scan"
    /\ UNCHANGED <<instances, idx, killed_any, scanIdx, exitCode, probe>>

\* main, one iteration of lines 116-117
ScanPort ==
    /\ pc = "scan"
    /\ scanIdx <= Len(PORTS)
    /\ \E l \in LookupOutcomes, k \in KillOutcomes :
         LET r == kill_by_port(IntV(PORTS[scanIdx]), l, k) IN
         /\ calls' = calls \o r.ev
         /\ IF r.raised
            THEN Crash /\ UNCHANGED scanIdx
            ELSE scanIdx' = scanIdx + 1 /\ UNCHANGED <<pc, exitCode>>
    /\ UNCHANGED <<file, instances, idx, killed_any, result, probe>>

\* main, line 119, and the normal exit
Finish ==
    /\ \/ pc = "finish"
       \/ pc = "scan" /\ scanIdx > Len(PORTS)
    /\ pc' = "done"
    /\ exitCode' = 0
    /\ UNCHANGED <<file, instances, idx, killed_any, scanIdx, calls, result, probe>>

Next == ReadRegistry \/ ProcessEntry \/ CleanUp \/ ScanPort \/ Finish

Spec == Init /\ [][Next]_vars

(* ---------------- kill_by_port on its own, any arguments ---------------- *)
InitPort ==
    /\ pc = "port"
    /\ probe \in Probes
    /\ file = File("absent", Json("null", 0, <<>>))
    /\ instances = <<>>
    /\ idx = 1
    /\ killed_any = FALSE
    /\ scanIdx = 1
    /\ calls = <<>>
    /\ result = "unset"
    /\ exitCode = 0 - 1

\* kill_by_port(port), lines 102-108
CallKillByPort ==
    /\ pc = "port"
    /\ LET r == kill_by_port(probe.port, probe.l, probe.k) IN
       /\ calls' = r.ev
       /\ pc' = IF r.raised THEN "crashed" ELSE "returned"
    /\ UNCHANGED <<file, instances, idx, killed_any, scanIdx, result, exitCode, probe>>

NextPort == CallKillByPort

SpecPort == InitPort /\ [][NextPort]_vars

(* ====================== properties of the claims ======================== *)
Terminal == pc \in {"done", "crashed"}

IsKill(e) == e.op = "kill"
IsPidKill(e) == e.op = "kill" /\ e.via = "pid"
IsPortKill(e) == e.op = "kill" /\ e.via = "port"
IsQuery(e) == e.op = "query"
IsLookup(e) == e.op = "lookup"
IsWrite(e) == e.op = "write"

\* position of the registry reset in the log, 0 when there is none
WritePos == IF \E i \in DOMAIN calls : IsWrite(calls[i])
            THEN CHOOSE i \in DOMAIN calls : IsWrite(calls[i])
            ELSE 0

\* the calls made by the loop of main (lines 116-117): all of them when no
\* registry was iterated, otherwise those after the registry reset
ScanCalls ==
    IF instances = <<>> THEN calls
    ELSE IF WritePos = 0 THEN <<>>
    ELSE SubSeq(calls, WritePos + 1, Len(calls))

\* the calls made while the registry entries are iterated
EntryCalls ==
    IF instances = <<>> THEN <<>>
    ELSE IF WritePos = 0 THEN calls
    ELSE SubSeq(calls, 1, WritePos - 1)

ScanLookups == SelectSeq(ScanCalls, IsLookup)
ScannedPorts == [i \in 1..Len(ScanLookups) |-> ScanLookups[i].port.v]

PidKills == SelectSeq(calls, IsPidKill)
IndexOf(name) == CHOOSE i \in DOMAIN instances : instances[i].name = name
InfoOf(name) == instances[IndexOf(name)].info
StaleAt(i) == IsQuery(calls[i]) /\ calls[i].res = "stale"
FullScan == pc = "done" /\ ScannedPorts = PORTS

\* C1: with the registry file missing, a run looks up exactly the ports
\* 7331, 7333, 5173, in that order and once each, makes no process query,
\* registry tree-kill or registry write, and then finishes.
C1_MissingFileScansFixedPorts ==
    (file.kind = "absent" /\ Terminal) =>
        /\ FullScan
        /\ result = "False"
        /\ \A i \in DOMAIN calls : ~IsQuery(calls[i]) /\ ~IsPidKill(calls[i]) /\ ~IsWrite(calls[i])

\* C2: with a registry file that is malformed JSON or the empty object, the
\* run is that of the missing-file case: kill_from_instance_file returns
\* False, no entry is queried or tree-killed, the fixed ports are scanned in
\* order once each and no error leaves main.
C2_UnusableFileScansFixedPorts ==
    (instances = <<>> /\ Terminal
        /\ (file.kind = "malformed" \/ file = File("json", EmptyDict))) =>
        /\ FullScan
        /\ result = "False"
        /\ \A i \in DOMAIN calls : ~IsQuery(calls[i]) /\ ~IsPidKill(calls[i]) /\ ~IsWrite(calls[i])

\* every entry of the registry is an object with a truthy pid
AllValid ==
    /\ instances # <<>>
    /\ \A i \in DOMAIN instances : instances[i].info.isdict /\ Truthy(GetPid(instances[i].info))
\* every process query made so far found a node/tsx image
AllMatched == \A i \in DOMAIN calls : IsQuery(calls[i]) => calls[i].res = "match"

\* C3: with N valid entries whose PIDs all match the node/tsx pattern, the
\* run issues exactly one tree-kill per entry on its registered PID, in
\* registry order, and the registry file holds {} afterward.
C3_EveryMatchingEntryKilledAndFileReset ==
    (AllValid /\ AllMatched /\ Terminal) =>
        /\ Len(PidKills) = Len(instances)
        /\ \A i \in DOMAIN instances :
             /\ PidKills[i].name = instances[i].name
             /\ PidKills[i].pid = GetPid(instances[i].info)
        /\ file = File("json", EmptyDict)

\* C4 (as claimed): an entry whose PID does not match gets a port lookup for
\* its recorded port, and no tree-kill on its registered PID is issued while
\* that entry is handled.
C4_StaleEntryNeverKillsRegisteredPid ==
    \A i \in DOMAIN calls :
        StaleAt(i) =>
            /\ i + 1 \in DOMAIN calls
            /\ IsLookup(calls[i + 1])
            /\ calls[i + 1].port = GetPort(InfoOf(calls[i].name))
            /\ \A j \in {i + 1, i + 2} \cap DOMAIN calls :
                 ~(IsKill(calls[j]) /\ calls[j].pid = calls[i].pid)

\* C4 (amended): an entry whose PID does not match gets a port lookup for its
\* recorded port and never a PID-based tree-kill (kill_tree(pid, name)); the
\* only tree-kill made for it is the port-based one, on the PID the lookup
\* returned, which may be the registered PID itself.
C4_StaleEntryKilledByPortOnly ==
    \A i \in DOMAIN calls :
        StaleAt(i) =>
            /\ i + 1 \in DOMAIN calls
            /\ IsLookup(calls[i + 1])
            /\ calls[i + 1].port = GetPort(InfoOf(calls[i].name))
            /\ \A j \in DOMAIN calls : ~(IsPidKill(calls[j]) /\ calls[j].name = calls[i].name)
            /\ (i + 2 \in DOMAIN calls /\ IsKill(calls[i + 2])) =>
                 /\ IsPortKill(calls[i + 2])
                 /\ calls[i + 1].res = "found"
                 /\ calls[i + 2].pid = calls[i + 1].pid
                 /\ calls[i + 2].port = calls[i + 1].port

\* a stale entry whose port is owned by the registered PID itself: the
\* port-based kill has been issued on that PID
C4_Witness ==
    \E i \in DOMAIN calls :
        /\ StaleAt(i)
        /\ i + 2 \in DOMAIN calls
        /\ IsPortKill(calls[i + 2])
        /\ calls[i + 2].pid = calls[i].pid
        /\ pc = "done"

\* C5: whatever the registry file holds and whatever the external commands
\* do, no exception leaves main: every run ends at "Done." with status 0.
C5_NoErrorLeavesMain ==
    /\ pc # "crashed"
    /\ Terminal => exitCode = 0

\* C6: once the registry was read as a non-empty mapping, the run writes the
\* empty mapping exactly once, after the last entry was handled, whether or
\* not anything was killed or skipped; a failed write does not change the
\* function's result.
C6_RegistryResetExactlyOnce ==
    (instances # <<>> /\ Terminal) =>
        /\ Cardinality({i \in DOMAIN calls : IsWrite(calls[i])}) = 1
        /\ idx > Len(instances)
        /\ \A i \in DOMAIN calls :
             (IsQuery(calls[i]) \/ IsPidKill(calls[i])) => i < WritePos
        /\ result = IF killed_any THEN "True" ELSE "False"

\* C7: if some entry took the stale branch, kill_from_instance_file returns
\* True, whatever the port lookup and the kill of the listener did, and main
\* does not scan the fixed ports.
C7_StaleBranchCountsAsKilled ==
    ((\E i \in DOMAIN calls : StaleAt(i)) /\ Terminal) =>
        /\ result = "True"
        /\ ScanCalls = <<>>

\* the text the port-owner lookup printed, stripped
ProbeText == Strip(probe.l.out)
\* the lookup found a listener: it printed the decimal text of a PID
ProbeFound == probe.l.st = "out" /\ IsNumeric(ProbeText) /\ ParseInt(ProbeText) > 0
\* the lookup found none: empty output, "0", non-numeric output, non-zero exit
ProbeNone ==
    \/ probe.l.st = "nonzero"
    \/ /\ probe.l.st = "out"
       /\ (ProbeText = <<>> \/ ProbeText = <<"0">> \/ ~IsNumeric(ProbeText))

\* C8: a call of kill_by_port(port) issues at most one tree-kill; when the
\* lookup finds a listener, exactly one, on the owning PID; when it finds
\* none (empty output, "0", non-numeric output, non-zero exit), none, and it
\* returns after reporting that there is no process on the port.
C8_KillByPortAtMostOneKill ==
    (pc \in {"returned", "crashed"}) =>
        LET kills == SelectSeq(calls, IsKill) IN
        /\ Len(kills) <= 1
        /\ ProbeFound =>
             /\ Len(kills) = 1
             /\ IsPortKill(kills[1])
             /\ kills[1].pid = IntV(ParseInt(ProbeText))
             /\ kills[1].port = probe.port
        /\ ProbeNone =>
             /\ kills = <<>>
             /\ pc = "returned"
             /\ \E i \in DOMAIN calls : calls[i].op = "noproc" /\ calls[i].port = probe.port

\* the lookup printed a PID and the one tree-kill, on that PID, exited non-zero
C8_Witness ==
    /\ pc = "returned"
    /\ ProbeFound
    /\ \E i \in DOMAIN calls : IsPortKill(calls[i]) /\ calls[i].res = "nonzero"

\* C9: a tree-kill that exits non-zero is not propagated: after one for a
\* registry entry, the remaining entries are handled and the registry file
\* is reset to {}; after one during the port scan, the remaining ports are
\* scanned.
C9_FailedKillDoesNotStopRun ==
    Terminal =>
        /\ (\E i \in DOMAIN calls : IsPidKill(calls[i]) /\ calls[i].res = "nonzero") =>
             /\ idx > Len(instances)
             /\ WritePos > 0
             /\ file = File("json", EmptyDict)
        /\ (\E i \in DOMAIN ScanCalls : IsPortKill(ScanCalls[i]) /\ ScanCalls[i].res = "nonzero") =>
             FullScan

\* every entry is an object that lacks a usable pid or whose PID matched and
\* whose tree-kill exited non-zero
NothingKillable ==
    /\ instances # <<>>
    /\ \A i \in DOMAIN instances : instances[i].info.isdict
    /\ \A i \in DOMAIN EntryCalls :
         /\ IsQuery(EntryCalls[i]) => EntryCalls[i].res = "match"
         /\ IsKill(EntryCalls[i]) => EntryCalls[i].res = "nonzero"

\* C10: main scans the fixed ports exactly when no entry was tree-killed
\* successfully and none took the stale branch; when every entry lacks a pid
\* (no query, kill or lookup is made for it) or matches and its tree-kill
\* fails, the registry file is reset to {} and then the three ports are
\* scanned in order.
C10_ScanIffNothingKilled ==
    Terminal =>
        /\ FullScan <=>
             /\ \A i \in DOMAIN EntryCalls : ~(IsKill(EntryCalls[i]) /\ EntryCalls[i].res = "ok")
             /\ \A i \in DOMAIN calls : ~StaleAt(i)
        /\ NothingKillable =>
             /\ \A i \in DOMAIN EntryCalls :
                  Truthy(GetPid(InfoOf(EntryCalls[i].name)))
             /\ WritePos > 0
             /\ file = File("json", EmptyDict)
             /\ FullScan

(* ------------- what holds of the runs that no exception ends ------------ *)
\* A run that never iterates a registry and ends normally scanned exactly
\* the fixed ports, in order, and made no other call.
NormalEnd_FallbackScansFixedPorts ==
    (instances = <<>> /\ pc = "done") =>
        /\ ScannedPorts = PORTS
        /\ result = "False"
        /\ \A i \in DOMAIN calls : ~IsQuery(calls[i]) /\ ~IsPidKill(calls[i]) /\ ~IsWrite(calls[i])

\* The tree-kills by registered PID follow the registry order, at most one
\* per entry, and after a normal end every matching entry has had its own.
NormalEnd_MatchingEntriesKilledInOrder ==
    /\ \A j \in DOMAIN PidKills :
         /\ PidKills[j].pid = GetPid(InfoOf(PidKills[j].name))
         /\ \A j2 \in DOMAIN PidKills :
              (j < j2) => IndexOf(PidKills[j].name) < IndexOf(PidKills[j2].name)
    /\ (AllValid /\ AllMatched /\ pc = "done") =>
         /\ Len(PidKills) = Len(instances)
         /\ calls[WritePos].res = "ok" <=> file = File("json", EmptyDict)

\* The registry is written at most once, only after the last entry, and the
\* function's result is killed_any whatever the write did.
AnyRun_RegistryResetAtMostOnce ==
    /\ Cardinality({i \in DOMAIN calls : IsWrite(calls[i])}) <= 1
    /\ WritePos > 0 =>
         /\ idx > Len(instances)
         /\ \A i \in DOMAIN calls : (IsQuery(calls[i]) \/ IsPidKill(calls[i])) => i < WritePos
         /\ result = IF killed_any THEN "True" ELSE "False"
    /\ (instances # <<>> /\ pc = "done") => WritePos > 0

\* After a stale branch the fixed ports are never scanned, and the function,
\* if it returns, returns True.
AnyRun_StaleBranchCountsAsKilled ==
    (\E i \in DOMAIN calls : StaleAt(i)) =>
        /\ ScanCalls = <<>>
        /\ result \in {"unset", "True"}
        /\ pc = "done" => result = "True"

\* A run that ends normally scanned the fixed ports exactly when no entry
\* was tree-killed successfully and none was stale.
NormalEnd_ScanIffNothingKilled ==
    /\ ScanCalls # <<>> =>
         /\ \A i \in DOMAIN EntryCalls : ~(IsKill(EntryCalls[i]) /\ EntryCalls[i].res = "ok")
         /\ \A i \in DOMAIN calls : ~StaleAt(i)
    /\ pc = "done" =>
         (ScannedPorts = PORTS <=>
             /\ \A i \in DOMAIN EntryCalls : ~(IsKill(EntryCalls[i]) /\ EntryCalls[i].res = "ok")
             /\ \A i \in DOMAIN calls : ~StaleAt(i))

\* An exception leaves main only where the source catches none: a command
\* that cannot be launched, a registry that is not a mapping of mappings, or
\* a registry file that cannot be decoded.
AnyRun_CrashOnlyFromUncaught ==
    pc = "crashed" =>
        \/ calls # <<>> /\ calls[Len(calls)].res = "oserror"
        \/ ReadOutcome(file) = "raise"
        \/ \E i \in DOMAIN instances : ~instances[i].info.isdict

====
